---- MODULE Spec2Model ----
(***************************************************************************)
(* State-machine model of the fraud engine session in src/s.py: main(),    *)
(* run_verification(), the risk components, analyze_spending_patterns()    *)
(* and decide().                                                           *)
(*                                                                         *)
(* Conventions.                                                            *)
(*  - A risk value is held in hundredths (0.30 is 30), an amount in whole  *)
(*    dollars; the thresholds keep the source's comparisons.               *)
(*  - main() is cut at its input() calls and at the return of              *)
(*    run_verification: pc is the position of the session, every action    *)
(*    is the code that runs from one position to the next.                 *)
(*  - datetime.now() is an input of the environment: the hour, and whether *)
(*    the previous transaction time lies within 60 seconds.                *)
(*  - max(set(xs), key=xs.count) breaks a tie by the iteration order of a  *)
(*    set of strings, which the interpreter's hash seed decides: the model *)
(*    chooses among the maximal elements.                                  *)
(*  - session_log is written and only printed in the summary; it is left   *)
(*    out.                                                                 *)
(***************************************************************************)
EXTENDS Integers, Sequences, FiniteSets, TLC

VARIABLES
    pc,                 \* position of main()
    flagged_count,      \* main: flagged_count
    pin_fails,          \* main: pin_fails
    card_blocked,       \* main: card_blocked
    spending_history,   \* module global spending_history
    last_tx_time,       \* main: last_tx_time (None or "set")
    last_region,        \* main: last_region
    amount,             \* main: amount of the current transaction
    now,                \* main: now, as [hour, within60]
    region,             \* main: region
    known_location,     \* main: known_location
    loc_reason,         \* main: loc_reason
    choice,             \* main: choice (merchant)
    reasons,            \* main: reasons
    risk,               \* main: risk
    decision,           \* main: decision
    tier,               \* run_verification: the branch taken
    asked,              \* run_verification: the input() calls made, in order, with the text read
    verified,           \* main: verified
    block_type,         \* last escalation notice printed
    ntx                 \* number of transactions begun

vars == <<pc, flagged_count, pin_fails, card_blocked, spending_history,
          last_tx_time, last_region, amount, now, region, known_location,
          loc_reason, choice, reasons, risk, decision, tier, asked, verified,
          block_type, ntx>>

txvars == <<amount, now, region, known_location, loc_reason, choice, reasons,
            risk, decision, tier, asked, verified>>

None == "None"

(***************************************************************************)
(* Bounds of the model.                                                    *)
(***************************************************************************)
MaxTx == 6          \* transactions of a session
MaxTxWide == 1      \* transactions of a single-transaction exploration
MaxTxHabit == 6     \* transactions of a session that builds a spending profile

(***************************************************************************)
(* Program constants.                                                      *)
(***************************************************************************)
CORRECT_PIN == "1234"
SIM_LAST_NAME == "Wahdan"
SIM_DOB == "1990-05-14"
SIM_CVV == "123"

ALBERTA_CITIES == {"calgary", "edmonton", "banff"}
WORLD_PROVINCES == {"alberta", "ontario"}
WORLD_COUNTRIES == {"france", "canada"}

MERCHANT_RISK ==
    [c \in {"1", "2", "3", "4", "5", "6", "7"} |->
        CASE c = "1" -> [label |-> "Groceries / Essentials", risk |-> 0]
          [] c = "2" -> [label |-> "Restaurants / Food", risk |-> 5]
          [] c = "3" -> [label |-> "Electronics / Tech", risk |-> 10]
          [] c = "4" -> [label |-> "Travel / Airline / Hotel", risk |-> 15]
          [] c = "5" -> [label |-> "Online / E-commerce / Marketplace", risk |-> 20]
          [] c = "6" -> [label |-> "Gift Cards / Crypto / Reloadables", risk |-> 30]
          [] c = "7" -> [label |-> "Other / Misc", risk |-> 5]]

(***************************************************************************)
(* str.strip() and str.lower() on the strings the inputs are drawn from.   *)
(***************************************************************************)
Strip(s) ==
    CASE s = " WAHDAN " -> "WAHDAN"
      [] s = " 1990-05-14" -> "1990-05-14"
      [] s = "123 " -> "123"
      [] s = " 1234 " -> "1234"
      [] s = "2 " -> "2"
      [] s = " ab" -> "ab"
      [] s = " AB" -> "AB"
      [] s = " france" -> "france"
      [] s = " Alberta" -> "Alberta"
      [] s = " zz" -> "zz"
      [] OTHER -> s

Lower(s) ==
    CASE s = "Wahdan" -> "wahdan"
      [] s = "WAHDAN" -> "wahdan"
      [] s = " WAHDAN " -> " wahdan "
      [] s = "Smith" -> "smith"
      [] s = "Calgary" -> "calgary"
      [] s = "AB" -> "ab"
      [] s = " AB" -> " ab"
      [] s = "Alberta" -> "alberta"
      [] s = " Alberta" -> " alberta"
      [] s = "YES" -> "yes"
      [] s = "No" -> "no"
      [] OTHER -> s

(***************************************************************************)
(* Location validation.  A location is the result of split(","): the       *)
(* sequence of its comma-separated parts.                                  *)
(***************************************************************************)
validate_location(location) ==
    IF Len(location) # 2
    THEN [region |-> None, known |-> FALSE, reason |-> "Invalid format"]
    ELSE LET city == Strip(Lower(location[1]))
             reg  == Strip(Lower(location[2]))
         IN  IF city \in ALBERTA_CITIES /\ reg = "ab"
             THEN [region |-> "ab", known |-> TRUE, reason |-> "Valid Alberta location"]
             ELSE IF reg \in WORLD_PROVINCES
             THEN [region |-> reg, known |-> TRUE, reason |-> "Valid world subdivision/state"]
             ELSE IF reg \in WORLD_COUNTRIES
             THEN [region |-> reg, known |-> TRUE, reason |-> "Valid world country"]
             ELSE [region |-> None, known |-> FALSE, reason |-> "Unknown location"]

Or(x, d) == IF x = None THEN d ELSE x

(***************************************************************************)
(* Risk components: each yields its contribution r and the reasons it      *)
(* appends.                                                                *)
(***************************************************************************)
add_amount_zone_risk(a) ==
    IF a <= 500 THEN [r |-> 0, why |-> <<>>]
    ELSE IF a <= 2000 THEN [r |-> 10, why |-> <<"Caution spend zone">>]
    ELSE IF a <= 5000 THEN [r |-> 20, why |-> <<"Risk spend zone">>]
    ELSE IF a <= 10000 THEN [r |-> 30, why |-> <<"High-risk spend zone">>]
    ELSE IF a <= 20000 THEN [r |-> 40, why |-> <<"Severe spend zone">>]
    ELSE [r |-> 50, why |-> <<"Critical spend zone">>]

add_location_risk(reg) ==
    IF reg # "ab"
    THEN [r |-> 30, why |-> <<"Transaction outside normal Alberta activity zone">>]
    ELSE [r |-> 0, why |-> <<>>]

add_unknown_location_risk(known) ==
    IF ~known
    THEN [r |-> 10, why |-> <<"Unknown / unverified location">>]
    ELSE [r |-> 0, why |-> <<>>]

add_time_of_day_risk(t) ==
    IF 0 <= t.hour /\ t.hour < 5
    THEN [r |-> 10, why |-> <<"Late-night transaction">>]
    ELSE [r |-> 0, why |-> <<>>]

add_merchant_risk(c) ==
    LET m == IF c \in DOMAIN MERCHANT_RISK THEN MERCHANT_RISK[c] ELSE MERCHANT_RISK["7"]
    IN  [r |-> m.risk, why |-> <<"Merchant category">>]

add_velocity_risk(last, t) ==
    IF last = None THEN [r |-> 0, why |-> <<>>]
    ELSE IF t.within60
    THEN [r |-> 15, why |-> <<"High transaction velocity">>]
    ELSE [r |-> 0, why |-> <<>>]

add_location_jump_risk(last, reg) ==
    IF last = None THEN [r |-> 0, why |-> <<>>]
    ELSE IF Or(reg, "unknown") # Or(last, "unknown")
    THEN [r |-> 10, why |-> <<"Sudden change in transaction region">>]
    ELSE [r |-> 0, why |-> <<>>]

(***************************************************************************)
(* Spending pattern analysis.                                              *)
(***************************************************************************)
RECURSIVE SumSeq(_)
SumSeq(s) == IF s = <<>> THEN 0 ELSE Head(s) + SumSeq(Tail(s))

Count(s, x) == Cardinality({i \in DOMAIN s : s[i] = x})

\* max(set(xs), key=xs.count): every element the call can return
MostFrequent(s) ==
    {x \in {s[i] : i \in DOMAIN s} :
        \A j \in DOMAIN s : Count(s, s[j]) <= Count(s, x)}

\* the None that analyze_spending_patterns() returns below 5 entries
NoPatterns ==
    [sum_amount |-> 0, sum_hour |-> 0, n |-> 0,
     frequent_merchant |-> None, frequent_region |-> None]

\* analyze_spending_patterns that already profiles four entries
analyze_spending_patterns_FromFour(h) ==
    IF Len(h) < 4 THEN {NoPatterns}
    ELSE LET amounts   == [i \in DOMAIN h |-> h[i].amount]
             merchants == [i \in DOMAIN h |-> h[i].merchant]
             hours     == [i \in DOMAIN h |-> h[i].hour]
             regions   == [i \in DOMAIN h |-> h[i].region]
         IN  {[sum_amount |-> SumSeq(amounts),
               sum_hour |-> SumSeq(hours),
               n |-> Len(h),
               frequent_merchant |-> fm,
               frequent_region |-> fr] :
                 fm \in MostFrequent(merchants), fr \in MostFrequent(regions)}

\* the profiles analyze_spending_patterns() can return
analyze_spending_patterns(h) ==
    IF Len(h) < 5 THEN {NoPatterns}
    ELSE LET amounts   == [i \in DOMAIN h |-> h[i].amount]
             merchants == [i \in DOMAIN h |-> h[i].merchant]
             hours     == [i \in DOMAIN h |-> h[i].hour]
             regions   == [i \in DOMAIN h |-> h[i].region]
         IN  {[sum_amount |-> SumSeq(amounts),
               sum_hour |-> SumSeq(hours),
               n |-> Len(h),
               frequent_merchant |-> fm,
               frequent_region |-> fr] :
                 fm \in MostFrequent(merchants), fr \in MostFrequent(regions)}

Abs(x) == IF x < 0 THEN 0 - x ELSE x

Plus(a, b) == [r |-> a.r + b.r, why |-> a.why \o b.why]

\* avg_amount = sum_amount / n and avg_hour = sum_hour / n, compared exactly
add_behavioral_risk(a, merchant_label, t, reg, patterns) ==
    IF patterns = NoPatterns THEN [r |-> 0, why |-> <<>>]
    ELSE LET c1 == IF a * patterns.n > patterns.sum_amount * 3
                   THEN [r |-> 20, why |-> <<"Unusually high amount vs normal">>]
                   ELSE [r |-> 0, why |-> <<>>]
             c2 == IF merchant_label # patterns.frequent_merchant
                   THEN [r |-> 10, why |-> <<"Merchant differs from usual">>]
                   ELSE [r |-> 0, why |-> <<>>]
             c3 == IF Abs(t.hour * patterns.n - patterns.sum_hour) > 6 * patterns.n
                   THEN [r |-> 10, why |-> <<"Transaction time unusual">>]
                   ELSE [r |-> 0, why |-> <<>>]
             c4 == IF reg # patterns.frequent_region
                   THEN [r |-> 10, why |-> <<"Region unusual">>]
                   ELSE [r |-> 0, why |-> <<>>]
         IN  Plus(Plus(Plus(c1, c2), c3), c4)

\* Min that forgets the clamp
Min_NoClamp(a, b) == a

Min(a, b) == IF a <= b THEN a ELSE b

(***************************************************************************)
(* Decision bands.                                                         *)
(***************************************************************************)
decide(rk) ==
    IF rk < 50 THEN "APPROVED"
    ELSE IF 50 <= rk /\ rk <= 80 THEN "APPROVED (FLAGGED)"
    ELSE IF 80 < rk /\ rk <= 90 THEN "CALL BANK (Verification Recommended)"
    ELSE IF 90 < rk /\ rk < 100 THEN "CARD UNDER REVIEW (High Risk)"
    ELSE "CRITICAL RISK (Manual Review Needed)"

\* main, lines 423-432: the sum of the components before the clamp
RiskCalculation(a, reg, known, t, c, merchant_label, last_t, last_r, patterns) ==
    Plus(Plus(Plus(Plus(Plus(Plus(Plus(
        add_amount_zone_risk(a),
        add_location_risk(reg)),
        add_unknown_location_risk(known)),
        add_time_of_day_risk(t)),
        add_merchant_risk(c)),
        add_velocity_risk(last_t, t)),
        add_location_jump_risk(last_r, reg)),
        add_behavioral_risk(a, merchant_label, t, Or(reg, "unknown"), patterns))

\* verification_required with both comparisons off by one
verification_required_OffByOne(a, rk) == (a >= 1000) \/ (rk > 50)

\* verification_required that calls run_verification for every scored transaction
verification_required_Always(a, rk) == TRUE

\* verification_required that looks at the amount only
verification_required_AmountOnly(a, rk) == a > 1000

\* main, line 443
verification_required(a, rk) == (a > 1000) \/ (rk >= 50)

\* run_verification, lines 267-269
full_check(a, rk) == (a > 5000) \/ (rk >= 90)
\* mid_check with an inclusive amount bound
mid_check_Inclusive(a, rk) == (a >= 2000) \/ (rk >= 70)
mid_check(a, rk) == (a > 2000) \/ (rk >= 70)
pin_only(a, rk) == (a > 1000) \/ (rk >= 50)

(***************************************************************************)
(* Inputs.  An amount input is the text typed, as float() sees it: ok says *)
(* whether it parses, val is the number.                                   *)
(***************************************************************************)
Num(v) == [ok |-> TRUE, val |-> v]
NotANumber == [ok |-> FALSE, val |-> 0]

\* a session: few inputs, many transactions
Session ==
    [maxtx     |-> MaxTx,
     amounts   |-> {Num(0), Num(100), Num(800), Num(1500)},
     hours     |-> {14},
     within60  |-> {FALSE},
     locations |-> {<<"calgary", "ab">>, <<"nowhere">>},
     merchants |-> {"6"},
     lasts     |-> {"Wahdan", "Smith"},
     dobs      |-> {"1990-05-14", "1990-05-15"},
     cvvs      |-> {"123", "999"},
     pins      |-> {"1234", "0000"},
     choices   |-> {"1", "2", "3", "4"},
     agains    |-> {"yes", "no"}]

\* a single transaction: many inputs
Wide ==
    [maxtx     |-> MaxTxWide,
     amounts   |-> {NotANumber, Num(0 - 5), Num(149), Num(150), Num(1000),
                    Num(1001), Num(2000), Num(2001), Num(5000), Num(5001),
                    Num(20001)},
     hours     |-> {2, 14},
     within60  |-> {FALSE, TRUE},
     locations |-> {<<"Calgary", " AB">>, <<"toronto", " ab">>, <<"paris", " france">>,
                    <<"nowhere">>},
     merchants |-> {"1", "6", "9"},
     lasts     |-> {"Wahdan", " WAHDAN ", "Smith"},
     dobs      |-> {"1990-05-14", " 1990-05-14", "1990-05-15"},
     cvvs      |-> {"123", "123 ", "999"},
     pins      |-> {"1234", " 1234 ", "0000"},
     choices   |-> {"1", "2 ", "3", "4", ""},
     agains    |-> {"yes", "YES", "no", ""}]

\* a session long enough for a spending profile, with inputs that depart from it
Habit ==
    [maxtx     |-> MaxTxHabit,
     amounts   |-> {Num(100), Num(1500)},
     hours     |-> {2, 14},
     within60  |-> {FALSE, TRUE},
     locations |-> {<<"calgary", "ab">>, <<"paris", "france">>},
     merchants |-> {"1"},
     lasts     |-> {"Wahdan"},
     dobs      |-> {"1990-05-14"},
     cvvs      |-> {"123"},
     pins      |-> {"1234"},
     choices   |-> {"1"},
     agains    |-> {"yes"}]

NoTime == [hour |-> 0, within60 |-> FALSE]

\* the locals of main() before a transaction assigns them
FreshTx ==
    /\ amount' = 0
    /\ now' = NoTime
    /\ region' = None
    /\ known_location' = FALSE
    /\ loc_reason' = None
    /\ choice' = None
    /\ reasons' = <<>>
    /\ risk' = 0
    /\ decision' = None
    /\ tier' = None
    /\ asked' = <<>>
    /\ verified' = FALSE
    /\ block_type' = "none"

Init ==
    /\ pc = "amount"
    /\ flagged_count = 0
    /\ pin_fails = 0
    /\ card_blocked = FALSE
    /\ spending_history = <<>>
    /\ last_tx_time = None
    /\ last_region = None
    /\ amount = 0
    /\ now = NoTime
    /\ region = None
    /\ known_location = FALSE
    /\ loc_reason = None
    /\ choice = None
    /\ reasons = <<>>
    /\ risk = 0
    /\ decision = None
    /\ tier = None
    /\ asked = <<>>
    /\ verified = FALSE
    /\ block_type = "none"
    /\ ntx = 0

\* EnterAmount with the auto-approval threshold at 100
EnterAmount_LowThreshold(D) ==
    /\ pc = "amount"
    /\ ~card_blocked
    /\ ntx < D.maxtx
    /\ \E inp \in D.amounts, h \in D.hours,
          w \in (IF last_tx_time = None THEN {FALSE} ELSE D.within60) :
        IF ~inp.ok \/ ~(inp.val > 0)
        THEN UNCHANGED vars
        ELSE /\ amount' = inp.val
             /\ now' = [hour |-> h, within60 |-> w]
             /\ ntx' = ntx + 1
             /\ IF inp.val < 100
                THEN /\ spending_history' = Append(spending_history,
                            [amount |-> inp.val, merchant |-> "Low-Value Auto-Approved",
                             hour |-> h, region |-> "ab"])
                     /\ last_tx_time' = "set"
                     /\ last_region' = "ab"
                     /\ pc' = "again_auto"
                ELSE /\ pc' = "location"
                     /\ UNCHANGED <<spending_history, last_tx_time, last_region>>
             /\ UNCHANGED <<flagged_count, pin_fails, card_blocked, region,
                            known_location, loc_reason, choice, reasons, risk,
                            decision, tier, asked, verified, block_type>>

\* main, lines 363-407: loop guard, amount prompt, now, low-value auto-approval
EnterAmount(D) ==
    /\ pc = "amount"
    /\ ~card_blocked
    /\ ntx < D.maxtx
    /\ \E inp \in D.amounts, h \in D.hours,
          w \in (IF last_tx_time = None THEN {FALSE} ELSE D.within60) :
        IF ~inp.ok \/ ~(inp.val > 0)
        THEN UNCHANGED vars
        ELSE /\ amount' = inp.val
             /\ now' = [hour |-> h, within60 |-> w]
             /\ ntx' = ntx + 1
             /\ IF inp.val < 150
                THEN /\ spending_history' = Append(spending_history,
                            [amount |-> inp.val, merchant |-> "Low-Value Auto-Approved",
                             hour |-> h, region |-> "ab"])
                     /\ last_tx_time' = "set"
                     /\ last_region' = "ab"
                     /\ pc' = "again_auto"
                ELSE /\ pc' = "location"
                     /\ UNCHANGED <<spending_history, last_tx_time, last_region>>
             /\ UNCHANGED <<flagged_count, pin_fails, card_blocked, region,
                            known_location, loc_reason, choice, reasons, risk,
                            decision, tier, asked, verified, block_type>>

\* main, lines 409-411
EnterLocation(D) ==
    /\ pc = "location"
    /\ \E location \in D.locations :
        LET v == validate_location(location)
        IN  /\ region' = v.region
            /\ known_location' = v.known
            /\ loc_reason' = v.reason
    /\ pc' = "merchant"
    /\ UNCHANGED <<flagged_count, pin_fails, card_blocked, spending_history,
                   last_tx_time, last_region, amount, now, choice, reasons, risk,
                   decision, tier, asked, verified, block_type, ntx>>

\* main, lines 413-445: merchant choice, risk calculation, decision, trigger
ChooseMerchant(D) ==
    /\ pc = "merchant"
    /\ \E input \in D.merchants, patterns \in analyze_spending_patterns(spending_history) :
        LET c == IF Strip(input) \notin DOMAIN MERCHANT_RISK THEN "7" ELSE Strip(input)
            merchant_label == MERCHANT_RISK[c].label
            sum == RiskCalculation(amount, region, known_location, now, c,
                                   merchant_label, last_tx_time, last_region, patterns)
            rk == Min(sum.r, 100)
        IN  /\ choice' = c
            /\ reasons' = Append(sum.why, loc_reason)
            /\ risk' = rk
            /\ decision' = decide(rk)
            /\ pc' = IF verification_required(amount, rk) THEN "verify" ELSE "final"
    /\ UNCHANGED <<flagged_count, pin_fails, card_blocked, spending_history,
                   last_tx_time, last_region, amount, now, region, known_location,
                   loc_reason, tier, asked, verified, block_type, ntx>>

(***************************************************************************)
(* run_verification.                                                       *)
(***************************************************************************)
\* lines 272, 299, 337, 347: the first tier whose flag holds
SelectTier(a, rk) ==
    IF full_check(a, rk) THEN "full"
    ELSE IF mid_check(a, rk) THEN "mid"
    ELSE IF pin_only(a, rk) THEN "pin"
    ELSE "none"

\* lines 264-273, 299-302, 337-339, 347: entry, tier flags, first prompt
StartVerification ==
    /\ pc = "verify"
    /\ tier' = SelectTier(amount, risk)
    /\ asked' = <<>>
    /\ IF tier' = "full" THEN pc' = "ask_last" /\ UNCHANGED verified
       ELSE IF tier' \in {"mid", "pin"} THEN pc' = "ask_pin" /\ UNCHANGED verified
       ELSE pc' = "verified" /\ verified' = TRUE
    /\ UNCHANGED <<flagged_count, pin_fails, card_blocked, spending_history,
                   last_tx_time, last_region, amount, now, region, known_location,
                   loc_reason, choice, reasons, risk, decision, block_type, ntx>>

\* the frame of every step inside run_verification
VerificationFrame ==
    UNCHANGED <<flagged_count, pin_fails, card_blocked, spending_history,
                last_tx_time, last_region, amount, now, region, known_location,
                loc_reason, choice, reasons, risk, decision, tier, block_type, ntx>>

\* lines 275-278 (full) and 312-315 (mid, choice 1)
AnswerLast(D) ==
    /\ pc = "ask_last"
    /\ \E input \in D.lasts :
        /\ asked' = Append(asked, [field |-> "last name", input |-> input])
        /\ IF Lower(Strip(input)) # Lower(SIM_LAST_NAME)
           THEN pc' = "verified" /\ verified' = FALSE
           ELSE IF tier = "full"
           THEN pc' = "ask_dob" /\ UNCHANGED verified
           ELSE pc' = "verified" /\ verified' = TRUE
    /\ VerificationFrame

\* AnswerDob that reads the date of birth without comparing it
AnswerDob_Unchecked(D) ==
    /\ pc = "ask_dob"
    /\ \E input \in D.dobs :
        /\ asked' = Append(asked, [field |-> "date of birth", input |-> input])
        /\ IF tier = "full"
           THEN pc' = "ask_cvv" /\ UNCHANGED verified
           ELSE pc' = "verified" /\ verified' = TRUE
    /\ VerificationFrame

\* lines 280-283 (full) and 318-321 (mid, choice 2)
AnswerDob(D) ==
    /\ pc = "ask_dob"
    /\ \E input \in D.dobs :
        /\ asked' = Append(asked, [field |-> "date of birth", input |-> input])
        /\ IF Strip(input) # SIM_DOB
           THEN pc' = "verified" /\ verified' = FALSE
           ELSE IF tier = "full"
           THEN pc' = "ask_cvv" /\ UNCHANGED verified
           ELSE pc' = "verified" /\ verified' = TRUE
    /\ VerificationFrame

\* lines 285-288 (full) and 324-327 (mid, choice 3)
AnswerCvv(D) ==
    /\ pc = "ask_cvv"
    /\ \E input \in D.cvvs :
        /\ asked' = Append(asked, [field |-> "CVV", input |-> input])
        /\ IF Strip(input) # SIM_CVV
           THEN pc' = "verified" /\ verified' = FALSE
           ELSE IF tier = "full"
           THEN pc' = "ask_pin" /\ UNCHANGED verified
           ELSE pc' = "verified" /\ verified' = TRUE
    /\ VerificationFrame

\* lines 290-296 (full), 302-305 (mid) and 339-344 (PIN only)
AnswerPin(D) ==
    /\ pc = "ask_pin"
    /\ \E input \in D.pins :
        /\ asked' = Append(asked, [field |-> "PIN", input |-> input])
        /\ IF Strip(input) # CORRECT_PIN
           THEN pc' = "verified" /\ verified' = FALSE
           ELSE IF tier = "mid"
           THEN pc' = "ask_choice" /\ UNCHANGED verified
           ELSE pc' = "verified" /\ verified' = TRUE
    /\ VerificationFrame

\* AnswerChoice whose last branch asks the last name for any other choice
AnswerChoice_DefaultLast(D) ==
    /\ pc = "ask_choice"
    /\ \E input \in D.choices :
        /\ asked' = Append(asked, [field |-> "choice", input |-> input])
        /\ LET c == Strip(input)
           IN  IF c = "2" THEN pc' = "ask_dob" /\ UNCHANGED verified
               ELSE IF c = "3" THEN pc' = "ask_cvv" /\ UNCHANGED verified
               ELSE pc' = "ask_last" /\ UNCHANGED verified
    /\ VerificationFrame

\* lines 307-331: the factor choice of the mid tier
AnswerChoice(D) ==
    /\ pc = "ask_choice"
    /\ \E input \in D.choices :
        /\ asked' = Append(asked, [field |-> "choice", input |-> input])
        /\ LET c == Strip(input)
           IN  IF c = "1" THEN pc' = "ask_last" /\ UNCHANGED verified
               ELSE IF c = "2" THEN pc' = "ask_dob" /\ UNCHANGED verified
               ELSE IF c = "3" THEN pc' = "ask_cvv" /\ UNCHANGED verified
               ELSE pc' = "verified" /\ verified' = FALSE
    /\ VerificationFrame

(***************************************************************************)
(* main: the outcome of the verification, the final decision, the          *)
(* continuation.                                                           *)
(***************************************************************************)
\* FailEscalation with the freeze one failure late
FailEscalation_FreezeAtSix(fails) ==
    IF fails = 3 THEN "warning"
    ELSE IF fails = 6 THEN "frozen"
    ELSE IF fails >= 7 THEN "blocked"
    ELSE "none"

\* FailEscalation with the freeze branch lost: the block is the first halt
FailEscalation_NoFreeze(fails) ==
    IF fails = 3 THEN "warning"
    ELSE IF fails >= 7 THEN "blocked"
    ELSE "none"

\* FailEscalation that freezes where it should only warn
FailEscalation_FreezeAtThree(fails) ==
    IF fails = 3 THEN "frozen"
    ELSE IF fails = 5 THEN "frozen"
    ELSE IF fails >= 7 THEN "blocked"
    ELSE "none"

\* lines 467-476: the notice after a failed verification
FailEscalation(fails) ==
    IF fails = 3 THEN "warning"
    ELSE IF fails = 5 THEN "frozen"
    ELSE IF fails >= 7 THEN "blocked"
    ELSE "none"

\* FlagFreeze one flag early
FlagFreeze_AtFour(flagged) == flagged >= 4

\* FlagFreeze with a strict comparison
FlagFreeze_Strict(flagged) == flagged > 5

\* line 514
FlagFreeze(flagged) == flagged >= 5

\* HandleVerification that forgets flagged_count on a failure
HandleVerification_NoFlag ==
    /\ pc = "verified"
    /\ IF ~verified
       THEN /\ pin_fails' = pin_fails + 1
            /\ flagged_count' = flagged_count
            /\ reasons' = Append(reasons, "Verification failed; transaction declined.")
            /\ block_type' = FailEscalation(pin_fails')
            /\ IF block_type' \in {"frozen", "blocked"}
               THEN card_blocked' = TRUE /\ pc' = "done"
               ELSE pc' = "again_fail" /\ UNCHANGED card_blocked
       ELSE /\ pin_fails' = 0
            /\ reasons' = Append(reasons, "Verification passed successfully.")
            /\ pc' = "final"
            /\ UNCHANGED <<flagged_count, card_blocked, block_type>>
    /\ UNCHANGED <<spending_history, last_tx_time, last_region, amount, now,
                   region, known_location, loc_reason, choice, risk, decision,
                   tier, asked, verified, ntx>>

\* HandleVerification without the continue: a failure goes on to the final decision
HandleVerification_FallThrough ==
    /\ pc = "verified"
    /\ IF ~verified
       THEN /\ pin_fails' = pin_fails + 1
            /\ flagged_count' = flagged_count + 1
            /\ reasons' = Append(reasons, "Verification failed; transaction declined.")
            /\ block_type' = FailEscalation(pin_fails')
            /\ IF block_type' \in {"frozen", "blocked"}
               THEN card_blocked' = TRUE /\ pc' = "done"
               ELSE pc' = "final" /\ UNCHANGED card_blocked
       ELSE /\ pin_fails' = 0
            /\ reasons' = Append(reasons, "Verification passed successfully.")
            /\ pc' = "final"
            /\ UNCHANGED <<flagged_count, card_blocked, block_type>>
    /\ UNCHANGED <<spending_history, last_tx_time, last_region, amount, now,
                   region, known_location, loc_reason, choice, risk, decision,
                   tier, asked, verified, ntx>>

\* lines 449-476 and 486-489
HandleVerification ==
    /\ pc = "verified"
    /\ IF ~verified
       THEN /\ pin_fails' = pin_fails + 1
            /\ flagged_count' = flagged_count + 1
            /\ reasons' = Append(reasons, "Verification failed; transaction declined.")
            /\ block_type' = FailEscalation(pin_fails')
            /\ IF block_type' \in {"frozen", "blocked"}
               THEN card_blocked' = TRUE /\ pc' = "done"
               ELSE pc' = "again_fail" /\ UNCHANGED card_blocked
       ELSE /\ pin_fails' = 0
            /\ reasons' = Append(reasons, "Verification passed successfully.")
            /\ pc' = "final"
            /\ UNCHANGED <<flagged_count, card_blocked, block_type>>
    /\ UNCHANGED <<spending_history, last_tx_time, last_region, amount, now,
                   region, known_location, loc_reason, choice, risk, decision,
                   tier, asked, verified, ntx>>

\* FinalDecision that clears pin_fails on every completed transaction
FinalDecision_ResetFails ==
    /\ pc = "final"
    /\ last_tx_time' = "set"
    /\ last_region' = Or(region, "unknown")
    /\ spending_history' = Append(spending_history,
            [amount |-> amount, merchant |-> MERCHANT_RISK[choice].label,
             hour |-> now.hour, region |-> Or(region, "unknown")])
    /\ flagged_count' = IF decision # "APPROVED" THEN flagged_count + 1 ELSE flagged_count
    /\ IF FlagFreeze(flagged_count')
       THEN block_type' = "frozen" /\ card_blocked' = TRUE /\ pc' = "done"
       ELSE pc' = "again_final" /\ UNCHANGED <<block_type, card_blocked>>
    /\ pin_fails' = 0
    /\ UNCHANGED <<amount, now, region, known_location, loc_reason,
                   choice, reasons, risk, decision, tier, asked, verified, ntx>>

\* FinalDecision that puts the new entry in front of the history
FinalDecision_Prepend ==
    /\ pc = "final"
    /\ last_tx_time' = "set"
    /\ last_region' = Or(region, "unknown")
    /\ spending_history' =
            <<[amount |-> amount, merchant |-> MERCHANT_RISK[choice].label,
               hour |-> now.hour, region |-> Or(region, "unknown")]>>
            \o spending_history
    /\ flagged_count' = IF decision # "APPROVED" THEN flagged_count + 1 ELSE flagged_count
    /\ IF FlagFreeze(flagged_count')
       THEN block_type' = "frozen" /\ card_blocked' = TRUE /\ pc' = "done"
       ELSE pc' = "again_final" /\ UNCHANGED <<block_type, card_blocked>>
    /\ UNCHANGED <<pin_fails, amount, now, region, known_location, loc_reason,
                   choice, reasons, risk, decision, tier, asked, verified, ntx>>

\* lines 491-517
FinalDecision ==
    /\ pc = "final"
    /\ last_tx_time' = "set"
    /\ last_region' = Or(region, "unknown")
    /\ spending_history' = Append(spending_history,
            [amount |-> amount, merchant |-> MERCHANT_RISK[choice].label,
             hour |-> now.hour, region |-> Or(region, "unknown")])
    /\ flagged_count' = IF decision # "APPROVED" THEN flagged_count + 1 ELSE flagged_count
    /\ IF FlagFreeze(flagged_count')
       THEN block_type' = "frozen" /\ card_blocked' = TRUE /\ pc' = "done"
       ELSE pc' = "again_final" /\ UNCHANGED <<block_type, card_blocked>>
    /\ UNCHANGED <<pin_fails, amount, now, region, known_location, loc_reason,
                   choice, reasons, risk, decision, tier, asked, verified, ntx>>

\* lines 403-407, 479-485, 519-521: "Analyze another transaction?"
Again(D) ==
    /\ pc \in {"again_auto", "again_fail", "again_final"}
    /\ \E again \in D.agains :
        IF Lower(again) # "yes"
        THEN pc' = "done" /\ UNCHANGED <<last_tx_time, last_region, txvars, block_type>>
        ELSE /\ pc' = "amount"
             /\ IF pc = "again_fail"
                THEN last_tx_time' = "set" /\ last_region' = Or(region, "unknown")
                ELSE UNCHANGED <<last_tx_time, last_region>>
             /\ FreshTx
    /\ UNCHANGED <<flagged_count, pin_fails, card_blocked, spending_history, ntx>>

Next ==
    \/ EnterAmount(Session)
    \/ EnterLocation(Session)
    \/ ChooseMerchant(Session)
    \/ StartVerification
    \/ AnswerLast(Session)
    \/ AnswerDob(Session)
    \/ AnswerCvv(Session)
    \/ AnswerPin(Session)
    \/ AnswerChoice(Session)
    \/ HandleVerification
    \/ FinalDecision
    \/ Again(Session)

Spec == Init /\ [][Next]_vars

NextWide ==
    \/ EnterAmount(Wide)
    \/ EnterLocation(Wide)
    \/ ChooseMerchant(Wide)
    \/ StartVerification
    \/ AnswerLast(Wide)
    \/ AnswerDob(Wide)
    \/ AnswerCvv(Wide)
    \/ AnswerPin(Wide)
    \/ AnswerChoice(Wide)
    \/ HandleVerification
    \/ FinalDecision
    \/ Again(Wide)

SpecWide == Init /\ [][NextWide]_vars

NextHabit ==
    \/ EnterAmount(Habit)
    \/ EnterLocation(Habit)
    \/ ChooseMerchant(Habit)
    \/ StartVerification
    \/ AnswerLast(Habit)
    \/ AnswerDob(Habit)
    \/ AnswerCvv(Habit)
    \/ AnswerPin(Habit)
    \/ AnswerChoice(Habit)
    \/ HandleVerification
    \/ FinalDecision
    \/ Again(Habit)

SpecHabit == Init /\ [][NextHabit]_vars

(***************************************************************************)
(* Properties of the escalation counters.                                  *)
(***************************************************************************)

\* C1: whenever the session is at the amount prompt, about to accept a new
\* transaction, flagged_count is below 5.
C1_FlaggedBelowFiveAtPrompt ==
    (pc = "amount" /\ ~card_blocked) => flagged_count < 5

\* C2: a failed verification that brings pin_fails to 5 freezes the card in
\* that step and ends the loop, and once the card is blocked nothing of the
\* session changes any more.
C2_FreezeAtFiveFailures ==
    [][/\ (pc = "verified" /\ ~verified /\ pin_fails' = 5)
            => (card_blocked' /\ block_type' = "frozen" /\ pc' = "done")
       /\ (pin_fails = 5 => UNCHANGED vars)]_vars

\* C2 witness: the session has ended frozen on the fifth failure in a row
C2_Witness ==
    pc = "done" /\ pin_fails = 5 /\ card_blocked /\ block_type = "frozen" /\ ~verified

\* C3: handling a failed verification adds exactly 1 to pin_fails and to
\* flagged_count; handling a passed one sets pin_fails to 0 and leaves
\* flagged_count as it was.
C3_VerificationOutcomeCounters ==
    [][pc = "verified" =>
          IF ~verified
          THEN pin_fails' = pin_fails + 1 /\ flagged_count' = flagged_count + 1
          ELSE pin_fails' = 0 /\ flagged_count' = flagged_count]_vars

\* C3 witness: a pass has just reset two earlier failures (the two flags with
\* an empty history can only come from failed verifications)
C3_Witness ==
    /\ pc = "final" /\ verified /\ tier # None
    /\ pin_fails = 0 /\ flagged_count = 2 /\ spending_history = <<>>

\* C4: card_blocked starts false; it is set only by the failure escalation
\* (pin_fails 5, or >= 7) or by the flag freeze (flagged_count >= 5); once
\* it is true no variable of the session changes again.
C4_BlockedTerminal ==
    /\ card_blocked = FALSE
    /\ [][/\ card_blocked => UNCHANGED vars
          /\ (~card_blocked /\ card_blocked') =>
                \/ pc = "verified" /\ ~verified /\ (pin_fails' = 5 \/ pin_fails' >= 7)
                \/ pc = "final" /\ flagged_count' >= 5]_vars

\* C4 witness: the card was frozen by the flag count without any failure pending
C4_Witness ==
    pc = "done" /\ card_blocked /\ pin_fails = 0 /\ flagged_count = 5

\* C5: when every transaction so far reached its final decision with a
\* decision other than APPROVED (as many history entries and as many flags as
\* transactions, so none failed verification), the card is frozen exactly
\* when five of them are done.
C5_FrozenOnFifthFlagged ==
    (/\ pc \in {"again_final", "amount", "done"}
     /\ Len(spending_history) = ntx
     /\ flagged_count = ntx)
        => /\ ntx <= 5
           /\ card_blocked <=> ntx = 5
           /\ card_blocked => block_type = "frozen"

\* C5 witness: five flagged transactions, all verified, and the card is frozen
C5_Witness ==
    /\ pc = "done" /\ ntx = 5 /\ Len(spending_history) = 5 /\ flagged_count = 5
    /\ \A i \in 1..5 : spending_history[i].amount >= 150
    /\ card_blocked

\* C6: pin_fails stays within 0..5 and the notice is never the block one.
C6_BlockUnreachable ==
    /\ pin_fails \in 0..5
    /\ block_type # "blocked"
    /\ card_blocked => block_type = "frozen"

\* C6 witness: the failure count has reached 5 and the card is frozen
C6_Witness ==
    pin_fails = 5 /\ card_blocked /\ block_type = "frozen" /\ flagged_count > 5

(***************************************************************************)
(* Properties of the verification trigger and of the tiers.                *)
(***************************************************************************)
\* run_verification has been entered for the current transaction
Challenged == pc = "verify" \/ tier # None

\* run_verification has returned
Returned == pc \in {"verified", "final", "again_fail", "again_final", "done"}

\* the response read for a field is the expected one
Matches(e) ==
    CASE e.field = "last name" -> Lower(Strip(e.input)) = "wahdan"
      [] e.field = "date of birth" -> Strip(e.input) = "1990-05-14"
      [] e.field = "CVV" -> Strip(e.input) = "123"
      [] e.field = "PIN" -> Strip(e.input) = "1234"
      [] OTHER -> FALSE

AskPc(f) ==
    CASE f = "last name" -> "ask_last"
      [] f = "date of birth" -> "ask_dob"
      [] f = "CVV" -> "ask_cvv"
      [] f = "PIN" -> "ask_pin"
      [] OTHER -> "verified"

\* C7: once a transaction that is not auto-approved has been scored, the
\* verification is run iff amount > 1000 or score >= 0.50; otherwise nothing
\* is asked and the transaction is at, or past, the final decision output.
C7_VerificationTrigger ==
    decision # None =>
        IF amount > 1000 \/ risk >= 50
        THEN Challenged
        ELSE /\ ~Challenged
             /\ asked = <<>>
             /\ pc \in {"final", "again_final", "done"}

\* C7 witness: amount 1000 with a score below 0.50 went straight to the final
\* decision output
C7_Witness ==
    /\ pc = "final" /\ amount = 1000 /\ risk >= 40 /\ risk < 50
    /\ tier = None /\ asked = <<>>

\* C8: the tier run is the strictest one that holds: full iff amount > 5000
\* or score >= 0.90, else mid iff amount > 2000 or score >= 0.70, else PIN
\* only iff amount > 1000 or score >= 0.50; the PIN only tier asks for the
\* PIN and for nothing else.
C8_TierSelection ==
    tier # None =>
        /\ tier = "full" <=> (amount > 5000 \/ risk >= 90)
        /\ tier = "mid" <=> (/\ ~(amount > 5000 \/ risk >= 90)
                             /\ (amount > 2000 \/ risk >= 70))
        /\ tier = "pin" <=> (/\ ~(amount > 5000 \/ risk >= 90)
                             /\ ~(amount > 2000 \/ risk >= 70)
                             /\ (amount > 1000 \/ risk >= 50))
        /\ tier = "pin" => /\ Len(asked) <= 1
                           /\ \A i \in DOMAIN asked : asked[i].field = "PIN"
                           /\ Returned => Len(asked) = 1

\* C8 witness: amount 2000 with a score below 0.70 was asked for the PIN only
C8_Witness ==
    /\ tier = "pin" /\ pc = "verified" /\ amount = 2000 /\ risk < 70
    /\ Len(asked) = 1 /\ asked[1].field = "PIN"

FullOrder == <<"last name", "date of birth", "CVV", "PIN">>

\* C9: the full tier asks last name, date of birth, CVV, PIN in that order;
\* every response before the last one read matched; it returns FAIL right
\* after the first mismatch and PASS iff all four matched.
C9_FullTierSequence ==
    tier = "full" =>
        /\ Len(asked) <= 4
        /\ \A i \in DOMAIN asked :
              /\ asked[i].field = FullOrder[i]
              /\ i < Len(asked) => Matches(asked[i])
        /\ IF Returned
           THEN /\ Len(asked) >= 1
                /\ verified <=> (Len(asked) = 4 /\ Matches(asked[4]))
                /\ ~verified => ~Matches(asked[Len(asked)])
           ELSE /\ Len(asked) < 4
                /\ pc = AskPc(FullOrder[Len(asked) + 1])
                /\ \A i \in DOMAIN asked : Matches(asked[i])

\* C9 witness: a wrong date of birth ended the full tier before CVV and PIN
C9_Witness ==
    /\ tier = "full" /\ pc = "verified" /\ ~verified
    /\ Len(asked) = 2 /\ asked[2].field = "date of birth"

FactorOf(c) ==
    CASE c = "1" -> "last name"
      [] c = "2" -> "date of birth"
      [] c = "3" -> "CVV"
      [] OTHER -> "no factor"

\* C10: the mid tier asks the PIN first and fails on a wrong PIN with nothing
\* else asked; after a correct PIN it asks the choice, then exactly the one
\* factor chosen by 1, 2 or 3, and passes iff that factor matches; any other
\* choice fails with no factor asked.
C10_MidTierSequence ==
    tier = "mid" =>
        /\ Len(asked) <= 3
        /\ Len(asked) >= 1 => asked[1].field = "PIN"
        /\ Len(asked) >= 2 => Matches(asked[1]) /\ asked[2].field = "choice"
        /\ Len(asked) = 3 =>
              /\ Strip(asked[2].input) \in {"1", "2", "3"}
              /\ asked[3].field = FactorOf(Strip(asked[2].input))
        /\ IF Returned
           THEN /\ Len(asked) >= 1
                /\ verified <=> (Len(asked) = 3 /\ Matches(asked[3]))
                /\ Len(asked) = 1 => ~Matches(asked[1])
                /\ Len(asked) = 2 => Strip(asked[2].input) \notin {"1", "2", "3"}
           ELSE /\ Len(asked) = 0 => pc = "ask_pin"
                /\ Len(asked) = 1 => pc = "ask_choice"
                /\ Len(asked) = 2 => pc = AskPc(FactorOf(Strip(asked[2].input)))
                /\ Len(asked) < 3

\* C10 witness: a correct PIN followed by a choice outside 1..3 failed the tier
C10_Witness ==
    /\ tier = "mid" /\ pc = "verified" /\ ~verified
    /\ Len(asked) = 2 /\ Matches(asked[1]) /\ asked[2].field = "choice"

(***************************************************************************)
(* Properties of the score.                                                *)
(***************************************************************************)
\* the reason r is in the reason list of the current transaction
Has(r) == \E i \in DOMAIN reasons : reasons[i] = r

\* the transaction has been scored and the session state is still the one
\* it was scored in
ScoringState ==
    /\ decision # None
    /\ pc \in {"verify", "ask_last", "ask_dob", "ask_cvv", "ask_pin",
               "ask_choice", "verified", "final"}

\* the behavioural contribution that the reasons of the transaction stand for
BehavioralShown ==
    (IF Has("Unusually high amount vs normal") THEN 20 ELSE 0)
    + (IF Has("Merchant differs from usual") THEN 10 ELSE 0)
    + (IF Has("Transaction time unusual") THEN 10 ELSE 0)
    + (IF Has("Region unusual") THEN 10 ELSE 0)

\* the contribution of the seven other factors
OtherFactors ==
    add_amount_zone_risk(amount).r + add_location_risk(region).r
    + add_unknown_location_risk(known_location).r + add_time_of_day_risk(now).r
    + add_merchant_risk(choice).r + add_velocity_risk(last_tx_time, now).r
    + add_location_jump_risk(last_region, region).r

\* C11: the score of every transaction is within [0, 1] (0..100 hundredths),
\* whatever factors trigger, the behavioural sub-checks included.
C11_ScoreClamped ==
    /\ risk >= 0
    /\ risk <= 100
    /\ ScoringState =>
          risk = (IF OtherFactors + BehavioralShown > 100
                  THEN 100 ELSE OtherFactors + BehavioralShown)

\* C11 witness: the four behavioural sub-checks and the velocity factor all
\* triggered, their sum passed 1.0 and the score is 1.0
C11_Witness ==
    /\ ScoringState
    /\ BehavioralShown = 50
    /\ Has("High transaction velocity")
    /\ OtherFactors + BehavioralShown > 100
    /\ risk = 100

\* C14: a transaction scored on fewer than 5 history entries has no
\* behavioural reason and no behavioural contribution; on 5 or more the
\* contribution is the sum of the sub-checks that trigger on a profile of the
\* history, and it is at most 0.50.
C14_BehavioralNeedsFive ==
    ScoringState =>
        /\ Len(spending_history) < 5 =>
              /\ BehavioralShown = 0
              /\ risk = (IF OtherFactors > 100 THEN 100 ELSE OtherFactors)
        /\ BehavioralShown <= 50
        /\ \E p \in analyze_spending_patterns(spending_history) :
              add_behavioral_risk(amount, MERCHANT_RISK[choice].label, now,
                                  Or(region, "unknown"), p).r = BehavioralShown

\* C14 witness: on exactly 5 entries all four sub-checks triggered (0.50)
C14_Witness ==
    /\ ScoringState
    /\ Len(spending_history) = 5
    /\ BehavioralShown = 50

(***************************************************************************)
(* Properties of the frame of a transaction.                               *)
(***************************************************************************)
\* C12: an accepted amount below 150 is auto-approved in the step that reads
\* it: nothing is scored or asked, flagged_count, pin_fails and card_blocked
\* keep their values, and exactly one entry with merchant "Low-Value
\* Auto-Approved" and region "ab" is appended; the continuation prompt that
\* follows changes none of them.
C12_LowValueAutoApprove ==
    [][/\ (pc = "amount" /\ amount' > 0 /\ amount' < 150) =>
            /\ pc' = "again_auto"
            /\ spending_history' = Append(spending_history,
                    [amount |-> amount', merchant |-> "Low-Value Auto-Approved",
                     hour |-> now'.hour, region |-> "ab"])
            /\ UNCHANGED <<flagged_count, pin_fails, card_blocked>>
            /\ risk' = 0 /\ decision' = None /\ reasons' = <<>>
            /\ tier' = None /\ asked' = <<>>
       /\ pc = "again_auto" =>
            UNCHANGED <<flagged_count, pin_fails, card_blocked, spending_history>>]_vars

\* C12 witness: amount 149 was auto-approved and recorded
C12_Witness ==
    /\ pc = "again_auto" /\ amount = 149
    /\ spending_history = <<[amount |-> 149, merchant |-> "Low-Value Auto-Approved",
                             hour |-> now.hour, region |-> "ab"]>>
    /\ flagged_count = 0 /\ pin_fails = 0 /\ ~card_blocked

\* C13: pin_fails changes only in the step that handles the outcome of a
\* verification: a pass sets it to 0, a failure adds 1; every other step,
\* so every transaction without verification, leaves it alone; and a
\* failure blocks the card exactly when it makes pin_fails 5.
C13_FailureCountFrame ==
    [][/\ pin_fails' # pin_fails => pc = "verified"
       /\ pc = "verified" =>
             IF verified THEN pin_fails' = 0 ELSE pin_fails' = pin_fails + 1
       /\ (pc = "verified" /\ ~verified) => (card_blocked' <=> pin_fails' = 5)]_vars

\* C13 witness: a transaction that needed no verification has completed and
\* the two earlier failures are still counted
C13_Witness ==
    /\ pc = "again_final" /\ tier = None /\ decision = "APPROVED"
    /\ pin_fails = 2

(***************************************************************************)
(* Properties of the escalation, continued.                                *)
(***************************************************************************)
\* C15: the failure that makes pin_fails 3 only prints the warning: the card
\* stays unblocked, flagged_count takes its one increment, history and the
\* last-transaction fields are untouched, and the session goes to the
\* continuation prompt, from which it can return to the amount prompt.
C15_WarningAtThree ==
    [][/\ (pc = "verified" /\ ~verified /\ pin_fails' = 3) =>
            /\ block_type' = "warning"
            /\ ~card_blocked'
            /\ pc' = "again_fail"
            /\ flagged_count' = flagged_count + 1
            /\ UNCHANGED <<spending_history, last_tx_time, last_region, ntx>>
       /\ (pc = "again_fail" /\ block_type = "warning") =>
            /\ pc' \in {"amount", "done"}
            /\ ~card_blocked'
            /\ UNCHANGED <<pin_fails, flagged_count, spending_history>>]_vars

\* C15 witness: the third failure in a row has been warned about and the
\* session is back at the amount prompt
C15_Witness ==
    pc = "amount" /\ pin_fails = 3 /\ flagged_count = 3 /\ ~card_blocked /\ ntx = 3

\* C16: run_verification is entered only with a tier flag true, its
\* fall-through return is never taken, and every PASS it returns comes with
\* a PIN response that matched.
C16_TierAlwaysMatches ==
    /\ tier # "none"
    /\ pc = "verify" => (amount > 1000 \/ risk >= 50)
    /\ (Returned /\ tier # None /\ verified) =>
          \E i \in DOMAIN asked : asked[i].field = "PIN" /\ Matches(asked[i])

\* C16 witness: a score of exactly 0.50 on a small amount was verified by PIN
C16_Witness ==
    /\ pc = "final" /\ tier = "pin" /\ verified
    /\ amount <= 1000 /\ risk = 50
    /\ asked = <<[field |-> "PIN", input |-> " 1234 "]>>

\* C17: the flag-based freeze happens only in a final decision that itself
\* incremented flagged_count.
C17_FreezeOnlyWhenFlagging ==
    [][(pc = "final" /\ card_blocked') => flagged_count' = flagged_count + 1]_vars

\* C18: flagged_count never decreases, a step adds at most 1 to it, and it
\* never exceeds the number of transactions begun: a failed verification is
\* counted once.
C18_FlaggedOncePerTransaction ==
    /\ [](flagged_count <= ntx)
    /\ [][/\ flagged_count' \in {flagged_count, flagged_count + 1}
          /\ flagged_count' # flagged_count => pc \in {"verified", "final"}
          /\ (pc = "verified" /\ ~verified) =>
                (flagged_count' = flagged_count + 1 /\ pc' # "final")
          /\ (pc = "verified" /\ verified) => flagged_count' = flagged_count
          /\ pc = "final" =>
                flagged_count' =
                    flagged_count + (IF decision # "APPROVED" THEN 1 ELSE 0)]_vars

\* C18 witness: two transactions with a flagged decision both failed
\* verification and are counted once each
C18_Witness ==
    /\ pc = "again_fail" /\ ntx = 2 /\ flagged_count = 2 /\ pin_fails = 2
    /\ decision # "APPROVED" /\ spending_history = <<>>

\* C19: the history grows by exactly one entry, at its end, in the
\* auto-approval and in the final decision output, and is left as it is by
\* every other step, the handling of a failed verification included.
C19_HistoryAppendOnly ==
    [][IF (pc = "amount" /\ pc' = "again_auto") \/ pc = "final"
       THEN /\ Len(spending_history') = Len(spending_history) + 1
            /\ SubSeq(spending_history', 1, Len(spending_history)) = spending_history
       ELSE spending_history' = spending_history]_vars

\* C19 witness: after one recorded transaction a failed one has added nothing
C19_Witness ==
    /\ pc = "again_fail" /\ ntx = 2 /\ Len(spending_history) = 1
    /\ spending_history[1].amount >= 150

\* C20: a scored transaction whose decision is not APPROVED has a score of
\* at least 0.50 and is challenged; a final decision that increments
\* flagged_count follows a verification that was run and passed.
C20_FlaggedDecisionWasChallenged ==
    /\ []((decision # None /\ decision # "APPROVED") => (risk >= 50 /\ Challenged))
    /\ [][(pc = "final" /\ flagged_count' = flagged_count + 1) =>
             /\ decision # "APPROVED"
             /\ tier \in {"full", "mid", "pin"}
             /\ verified
             /\ asked # <<>>]_vars

\* C20 witness: a small amount with a flagged decision was challenged, passed
\* and then counted
C20_Witness ==
    /\ pc = "again_final" /\ decision = "APPROVED (FLAGGED)" /\ amount <= 1000
    /\ flagged_count = 1 /\ verified /\ tier # None

====
